---- MODULE Spec2Model ----
(***************************************************************************)
(* A model of hexagondisasm/reil/behavior_parser.py: the PLY lexer rules   *)
(* and the LALR parser of HexagonBehaviorParser, the semantic actions that *)
(* build HexagonTranslationBuilder objects, and the process-wide temporary *)
(* name generator.                                                         *)
(*                                                                         *)
(* Text is a sequence of one-character strings.  Positions are 0-based as  *)
(* in Python: lexpos is the number of characters already scanned.          *)
(***************************************************************************)
EXTENDS Integers, Sequences, FiniteSets, TLC

VARIABLES
    pc,          \* "idle", "parsing", "lexing", "returned", "raised"
    lexdata,     \* lexer.lexdata: the input text (the part handed to the lexer so far)
    lexpos,      \* lexer.lexpos
    lookahead,   \* yacc's lookahead token, NoToken when it has to be fetched
    statestack,  \* yacc's statestack
    symstack,    \* yacc's symstack: YaccSymbol (type, value)
    counter,     \* _ir_name_generator._counter_curr
    issued,      \* the names _ir_name_generator.get_next() has returned so far, in
                 \* order, each with the number of the call that asked for it
    result,      \* what the last call returned, or the exception it raised
    calls,       \* number of calls made so far
    fed          \* number of lexemes handed to the lexer so far, over all calls

vars == <<pc, lexdata, lexpos, lookahead, statestack, symstack, counter, issued, result, calls, fed>>

-----------------------------------------------------------------------------
(* Bounds of the model.                                                    *)

\* lexemes of the input texts of all the calls together (specification Spec)
MaxPieces == 8
\* calls of parse() on the same process-wide name generator
MaxCalls == 2
\* characters of a digit run (specification SpecLex)
MaxDigits == 2

hexagon_size == 32

-----------------------------------------------------------------------------
(* Characters.                                                             *)

Digits == <<"0", "1", "2", "3", "4", "5", "6", "7", "8", "9">>

HexLower == <<"0", "1", "2", "3", "4", "5", "6", "7", "8", "9", "a", "b", "c", "d", "e", "f">>

HexUpper == <<"0", "1", "2", "3", "4", "5", "6", "7", "8", "9", "A", "B", "C", "D", "E", "F">>

\* [a-fA-F0-9]
HexChars == {HexLower[i] : i \in 1..16} \cup {HexUpper[i] : i \in 1..16}

Letters ==
    {"a", "b", "c", "d", "e", "f", "g", "h", "i", "j", "k", "l", "m",
     "n", "o", "p", "q", "r", "s", "t", "u", "v", "w", "x", "y", "z",
     "A", "B", "C", "D", "E", "F", "G", "H", "I", "J", "K", "L", "M",
     "N", "O", "P", "Q", "R", "S", "T", "U", "V", "W", "X", "Y", "Z"}

\* \w
WordChars == Letters \cup {Digits[i] : i \in 1..10} \cup {"_"}

\* [RPNMC]
RegLetters == {"R", "P", "N", "M", "C"}

\* t_ignore = ' \t\x0c'
t_ignore == {" ", "\t", "\f"}

\* the character at 0-based offset p of s, "" past the end
At(s, p) ==
    IF p + 1 <= Len(s) THEN s[p + 1] ELSE ""

\* s[p:].startswith(lit)
StartsWith(s, p, lit) ==
    /\ p + Len(lit) <= Len(s)
    /\ \A i \in 1..Len(lit) : s[p + i] = lit[i]

\* the length of the longest run of characters of set cs at offset p
RECURSIVE Run(_, _, _)
Run(s, p, cs) ==
    IF At(s, p) \in cs THEN 1 + Run(s, p + 1, cs) ELSE 0

-----------------------------------------------------------------------------
(* Lexer rules.  Each m_X gives the length of the match of rule X's        *)
(* regular expression at offset p, 0 when it does not match.               *)

\* r'\n+'
m_newline(s, p) ==
    Run(s, p, {"\n"})

\* r'\*EA'
m_MEM_ACCESS(s, p) ==
    IF StartsWith(s, p, <<"*", "E", "A">>) THEN 3 ELSE 0

\* r'EA'
m_REG_EA(s, p) ==
    IF StartsWith(s, p, <<"E", "A">>) THEN 2 ELSE 0

\* r'[RPNMC]\w{1,2}(\.new)?'  (greedy: two word characters when there are two)
m_REG(s, p) ==
    IF At(s, p) \in RegLetters /\ At(s, p + 1) \in WordChars
    THEN LET n == IF At(s, p + 2) \in WordChars THEN 3 ELSE 2
         IN  IF StartsWith(s, p + n, <<".", "n", "e", "w">>) THEN n + 4 ELSE n
    ELSE 0

\* r'(0x)?[a-fA-F0-9]+'  (the prefix is tried first, then dropped on failure)
m_IMM(s, p) ==
    IF StartsWith(s, p, <<"0", "x">>) /\ At(s, p + 2) \in HexChars
    THEN 2 + Run(s, p + 2, HexChars)
    ELSE Run(s, p, HexChars)

\* The rules given as strings, in the order lex puts them in its master
\* expression: by decreasing length of the regular expression's text.
StringRules ==
    << [type |-> "PLUSPLUS",    lit |-> <<"+", "+">>],        \* \+\+
       [type |-> "TIMESEQUAL",  lit |-> <<"*", "=">>],        \* \*=
       [type |-> "PLUSEQUAL",   lit |-> <<"+", "=">>],        \* \+=
       [type |-> "LSHIFTEQUAL", lit |-> <<"<", "<", "=">>],   \* <<=
       [type |-> "RSHIFTEQUAL", lit |-> <<">", ">", "=">>],   \* >>=
       [type |-> "OREQUAL",     lit |-> <<"|", "=">>],        \* \|=
       [type |-> "XOREQUAL",    lit |-> <<"^", "=">>],        \* \^=
       [type |-> "PLUS",        lit |-> <<"+">>],             \* \+
       [type |-> "TIMES",       lit |-> <<"*">>],             \* \*
       [type |-> "OR",          lit |-> <<"|">>],             \* \|
       [type |-> "XOR",         lit |-> <<"^">>],             \* \^
       [type |-> "LSHIFT",      lit |-> <<"<", "<">>],
       [type |-> "RSHIFT",      lit |-> <<">", ">">>],
       [type |-> "LE",          lit |-> <<"<", "=">>],
       [type |-> "GE",          lit |-> <<">", "=">>],
       [type |-> "EQ",          lit |-> <<"=", "=">>],
       [type |-> "NE",          lit |-> <<"!", "=">>],
       [type |-> "DIVEQUAL",    lit |-> <<"/", "=">>],
       [type |-> "MINUSEQUAL",  lit |-> <<"-", "=">>],
       [type |-> "ANDEQUAL",    lit |-> <<"&", "=">>],
       [type |-> "MINUSMINUS",  lit |-> <<"-", "-">>],
       [type |-> "CONDOP",      lit |-> <<"?">>],             \* \?
       [type |-> "LPAREN",      lit |-> <<"(">>],             \* \(
       [type |-> "RPAREN",      lit |-> <<")">>],             \* \)
       [type |-> "LBRACE",      lit |-> <<"{">>],             \* \{
       [type |-> "RBRACE",      lit |-> <<"}">>],             \* \}
       [type |-> "PERIOD",      lit |-> <<".">>],             \* \.
       [type |-> "MINUS",       lit |-> <<"-">>],
       [type |-> "DIVIDE",      lit |-> <<"/">>],
       [type |-> "AND",         lit |-> <<"&">>],
       [type |-> "NOT",         lit |-> <<"!">>],
       [type |-> "LOG_NOT",     lit |-> <<"~">>],
       [type |-> "LT",          lit |-> <<"<">>],
       [type |-> "GT",          lit |-> <<">">>],
       [type |-> "EQUALS",      lit |-> <<"=">>],
       [type |-> "COMMA",       lit |-> <<",">>],
       [type |-> "SEMI",        lit |-> <<";">>],
       [type |-> "COLON",       lit |-> <<":">>] >>

\* the first string rule that matches at offset p, 0 when none does
m_string(s, p) ==
    LET hits == {i \in 1..Len(StringRules) : StartsWith(s, p, StringRules[i].lit)}
    IN  IF hits = {} THEN 0 ELSE CHOOSE i \in hits : \A j \in hits : i <= j

\* re.sub('0x', '', value)
RECURSIVE re_sub_0x(_)
re_sub_0x(v) ==
    IF v = <<>> THEN <<>>
    ELSE IF StartsWith(v, 0, <<"0", "x">>) THEN re_sub_0x(SubSeq(v, 3, Len(v)))
    ELSE <<v[1]>> \o re_sub_0x(SubSeq(v, 2, Len(v)))

\* the value of one digit in a base
DigitValue(c) ==
    CHOOSE k \in 0..15 : HexLower[k + 1] = c \/ HexUpper[k + 1] = c

\* int(v, base) on a run of digits: most significant digit first
RECURSIVE int_base(_, _)
int_base(v, base) ==
    IF v = <<>> THEN 0
    ELSE int_base(SubSeq(v, 1, Len(v) - 1), base) * base + DigitValue(v[Len(v)])

\* t_IMM reading the digits in base 10
t_IMM_decimal(t) ==
    [t EXCEPT !.value = int_base(re_sub_0x(t.value), 10)]

\* t_IMM: t.value = int(re.sub('0x', '', t.value), 16)
t_IMM(t) ==
    [t EXCEPT !.value = int_base(re_sub_0x(t.value), 16)]

\* t_MEM_ACCESS: t.value = 'EA'
t_MEM_ACCESS(t) ==
    [t EXCEPT !.value = <<"E", "A">>]

\* t_REG_EA and t_REG return the token as matched
t_REG(t) ==
    t

\* lexer.token(): what one call gives at lexpos p.
\*   [kind |-> "tok", tok, lexpos]   a token, and the position after it
\*   [kind |-> "None", lexpos]       the end of the text
\*   [kind |-> "error", tok, lexpos] no rule matches: the token t_error is called with
RECURSIVE token(_, _)
token(s, p) ==
    LET q == p + Run(s, p, t_ignore)
        lexeme(n) == SubSeq(s, q + 1, q + n)
        tok(ty, n) == [type |-> ty, value |-> lexeme(n), lexpos |-> q]
    IN  IF q >= Len(s) THEN [kind |-> "None", lexpos |-> q]
        ELSE IF m_newline(s, q) > 0 THEN token(s, q + m_newline(s, q))
        ELSE IF m_MEM_ACCESS(s, q) > 0
             THEN [kind |-> "tok", tok |-> t_MEM_ACCESS(tok("MEM_ACCESS", 3)), lexpos |-> q + 3]
        ELSE IF m_REG_EA(s, q) > 0
             THEN [kind |-> "tok", tok |-> t_REG(tok("REG_EA", 2)), lexpos |-> q + 2]
        ELSE IF m_REG(s, q) > 0
             THEN [kind |-> "tok", tok |-> t_REG(tok("REG", m_REG(s, q))),
                   lexpos |-> q + m_REG(s, q)]
        ELSE IF m_IMM(s, q) > 0
             THEN [kind |-> "tok", tok |-> t_IMM(tok("IMM", m_IMM(s, q))),
                   lexpos |-> q + m_IMM(s, q)]
        ELSE IF m_string(s, q) > 0
             THEN LET r == StringRules[m_string(s, q)]
                  IN  [kind |-> "tok", tok |-> tok(r.type, Len(r.lit)),
                       lexpos |-> q + Len(r.lit)]
        ELSE [kind |-> "error",
              tok |-> [type |-> "error", value |-> SubSeq(s, q + 1, Len(s)), lexpos |-> q],
              lexpos |-> q]

\* t_error naming the last character of the rest of the text, not the first
t_error_last(t) ==
    [class |-> "UnknownBehaviorException", kind |-> "lex",
     char |-> t.value[Len(t.value)], text |-> t.value]

\* t_error: raise UnknownBehaviorException("Illegal character c in: rest")
t_error(t) ==
    [class |-> "UnknownBehaviorException", kind |-> "lex",
     char |-> t.value[1], text |-> t.value]

-----------------------------------------------------------------------------
(* Operands, instructions and the translation builder.                     *)

NoneValue == [class |-> "NoneType"]

NoToken == [type |-> "None"]

\* ReilRegisterOperand(name, size)
ReilRegisterOperand(name, size) ==
    [class |-> "ReilRegisterOperand", name |-> name, size |-> size]

ReilEmptyOperand == [class |-> "ReilEmptyOperand"]

\* p[3]._builder.gen_str(src, dst)
gen_str(src, dst) ==
    [mnemonic |-> "STR", operands |-> <<src, ReilEmptyOperand, dst>>]

\* p[1]._builder.gen_add(src1, src2, dst)
gen_add(src1, src2, dst) ==
    [mnemonic |-> "ADD", operands |-> <<src1, src2, dst>>]

\* HexagonTranslationBuilder(_ir_name_generator): no instructions, _value = None
HexagonTranslationBuilder ==
    [class |-> "HexagonTranslationBuilder", instructions |-> <<>>, value |-> NoneValue]

\* tb.set_value(value)
set_value(tb, value) ==
    [tb EXCEPT !.value = value]

\* tb.get_value() raises UnexpectedException when _value is None
get_value_raises(tb) ==
    tb.value.class = "NoneType"

\* tb.add(instruction)
add(tb, instr) ==
    [tb EXCEPT !.instructions = Append(@, instr)]

\* extend_instructions putting tb's instructions first
extend_front(self, tb) ==
    [self EXCEPT !.instructions = tb.instructions \o @]

\* extend_instructions leaving tb's instructions out
extend_nothing(self, tb) ==
    self

\* self._instructions.extend(tb._instructions)
extend_instructions(self, tb) ==
    [self EXCEPT !.instructions = @ \o tb.instructions]

\* str(n) of a non-negative integer
RECURSIVE str(_)
str(n) ==
    IF n < 10 THEN <<Digits[n + 1]>> ELSE str(n \div 10) \o <<Digits[(n % 10) + 1]>>

\* VariableNamer("t", separator="").get_next(): the counter after the call
get_next_counter(c) ==
    c + 1

\* VariableNamer("t", separator="").get_next(): the name returned
get_next_name(c) ==
    <<"t">> \o str(get_next_counter(c))

\* tb.temporal(size): a register operand named by the name generator
temporal(c, size) ==
    ReilRegisterOperand(get_next_name(c), size)

UnexpectedException == [class |-> "UnexpectedException"]

-----------------------------------------------------------------------------
(* The grammar and the LALR table yacc builds from it.  The terminals      *)
(* of one family label isomorphic states, which are numbered once.         *)

\* the operator tokens of p_expression_binop
BinaryOps ==
    {"PLUS", "MINUS", "TIMES", "DIVIDE", "OR", "AND", "NOT", "XOR", "LOG_NOT",
     "LSHIFT", "RSHIFT", "LT", "GT", "LE", "GE", "EQ", "NE"}

\* the operator tokens of p_statementassign
AssignOps ==
    {"EQUALS", "TIMESEQUAL", "DIVEQUAL", "PLUSEQUAL", "MINUSEQUAL",
     "LSHIFTEQUAL", "RSHIFTEQUAL", "ANDEQUAL", "OREQUAL", "XOREQUAL"}

\* the length of each production's right-hand side and its left-hand side
Productions ==
    [p_statement_expr            |-> [len |-> 1, name |-> "statement"],
     p_statemenlist              |-> [len |-> 3, name |-> "statement"],
     p_statement_list_2          |-> [len |-> 2, name |-> "statement"],
     p_statement_statementassign |-> [len |-> 1, name |-> "statement"],
     p_expression_register       |-> [len |-> 1, name |-> "expression"],
     p_register_reg              |-> [len |-> 1, name |-> "register"],
     p_statementassign           |-> [len |-> 3, name |-> "statement_assign"],
     p_expression_binop          |-> [len |-> 3, name |-> "expression"]]

Shift(n) == [a |-> "shift", to |-> n]

Reduce(p) == [a |-> "reduce", prod |-> p]

Accept == [a |-> "accept"]

NoAction == [a |-> "error"]

\* the conflict settled as a 'left' precedence declaration would: by reducing
Resolve_reduce(shifting, reducing) ==
    reducing

\* precedence = (): no token and no production has a precedence, so yacc keeps
\* the shift of every shift/reduce conflict
Resolve(shifting, reducing) ==
    shifting

\*  0  S' -> . statement
\*  1  S' -> statement .            statement -> statement . SEMI [statement]
\*  2  statement -> expression .    expression -> expression . binop expression
\*  3  statement -> statement_assign .
\*  4  expression -> register .     statement_assign -> register . assign expression
\*  5  register -> REG .
\*  6  statement -> statement SEMI . [statement]
\*  7  expression -> expression binop . expression
\*  8  statement_assign -> register assign . expression
\*  9  statement -> statement SEMI statement .   statement -> statement . SEMI [statement]
\* 10  expression -> expression binop expression .   expression -> expression . binop expression
\* 11  expression -> register .
\* 12  statement_assign -> register assign expression .   expression -> expression . binop expression
\* States 9 and 10 hold a shift/reduce conflict, settled by Resolve.
LRAction(state, ltype) ==
    LET binop  == ltype \in BinaryOps
        assign == ltype \in AssignOps
        ends   == ltype \in {"SEMI", "$end"}
    IN  CASE state = 0 /\ ltype = "REG"   -> Shift(5)
          [] state = 1 /\ ltype = "SEMI"  -> Shift(6)
          [] state = 1 /\ ltype = "$end"  -> Accept
          [] state = 2 /\ binop           -> Shift(7)
          [] state = 2 /\ ends            -> Reduce("p_statement_expr")
          [] state = 3 /\ ends            -> Reduce("p_statement_statementassign")
          [] state = 4 /\ assign          -> Shift(8)
          [] state = 4 /\ (binop \/ ends) -> Reduce("p_expression_register")
          [] state = 5 /\ (assign \/ binop \/ ends) -> Reduce("p_register_reg")
          [] state = 6 /\ ltype = "REG"   -> Shift(5)
          [] state = 6 /\ ends            -> Reduce("p_statement_list_2")
          [] state = 7 /\ ltype = "REG"   -> Shift(5)
          [] state = 8 /\ ltype = "REG"   -> Shift(5)
          [] state = 9 /\ ltype = "SEMI"  -> Resolve(Shift(6), Reduce("p_statemenlist"))
          [] state = 9 /\ ltype = "$end"  -> Reduce("p_statemenlist")
          [] state = 10 /\ binop          -> Resolve(Shift(7), Reduce("p_expression_binop"))
          [] state = 10 /\ ends           -> Reduce("p_expression_binop")
          [] state = 11 /\ (binop \/ ends) -> Reduce("p_expression_register")
          [] state = 12 /\ binop          -> Shift(7)
          [] state = 12 /\ ends           -> Reduce("p_statementassign")
          [] OTHER                        -> NoAction

LRGoto(state, name) ==
    CASE state = 0 /\ name = "statement"        -> 1
      [] state = 6 /\ name = "statement"        -> 9
      [] state \in {0, 6} /\ name = "expression"       -> 2
      [] state \in {0, 6} /\ name = "statement_assign" -> 3
      [] state \in {0, 6} /\ name = "register"         -> 4
      [] state = 7 /\ name = "expression"       -> 10
      [] state = 8 /\ name = "expression"       -> 12
      [] state \in {7, 8} /\ name = "register"  -> 11

-----------------------------------------------------------------------------
(* Input texts.  In specification Spec a text is handed to the lexer       *)
(* lexeme by lexeme, each followed by one blank (a t_ignore character):    *)
(* the call's input is the text as it stands when the lexer reports its    *)
(* end.  In specification SpecOps the whole text is given with the call.   *)

Rd == <<"R", "d">>

Rs == <<"R", "s">>

Rt == <<"R", "t">>

RegNames == {Rd, Rs, Rt}

\* the lexeme of a token type given by a string rule
Lit(type) ==
    StringRules[CHOOSE i \in 1..Len(StringRules) : StringRules[i].type = type].lit

\* the lexemes of specification Spec
CorePieces ==
    {Rd, Rs, Lit("EQUALS"), Lit("PLUS"), Lit("SEMI"), <<"1", "F">>, <<"@">>}

\* "Rd<assign>Rs<binop>Rt;" for every assignment and binary operator
AssignTexts ==
    {d \o Lit(a) \o x \o Lit(b) \o y \o Lit("SEMI") :
        d \in RegNames, x \in RegNames, y \in RegNames, a \in AssignOps, b \in BinaryOps}

\* "Ra<binop>Rb<binop>Rc" for every two binary operators
ChainTexts ==
    {x \o Lit(a) \o y \o Lit(b) \o z :
        x \in RegNames, y \in RegNames, z \in RegNames, a \in BinaryOps, b \in BinaryOps}

-----------------------------------------------------------------------------
(* The state after construction: HexagonBehaviorParser() has built the     *)
(* lexer and the parser, the name generator has issued nothing.            *)

Init ==
    /\ pc = "idle"
    /\ lexdata = <<>>
    /\ lexpos = 0
    /\ lookahead = NoToken
    /\ statestack = <<>>
    /\ symstack = <<>>
    /\ counter = 0
    /\ issued = <<>>
    /\ result = NoneValue
    /\ calls = 0
    /\ fed = 0

\* The call ends with an exception: yacc's stacks are locals of the call.
Raise(exc) ==
    /\ pc' = "raised"
    /\ result' = exc
    /\ lookahead' = NoToken
    /\ statestack' = <<>>
    /\ symstack' = <<>>

\* parse() resetting the name generator, as a translator that numbers the
\* temporaries of each call from the start would
parse_call_reset(maxcalls, texts) ==
    /\ pc \in {"idle", "returned", "raised"}
    /\ calls < maxcalls
    /\ pc' = "parsing"
    /\ calls' = calls + 1
    /\ lexdata' \in texts
    /\ lexpos' = 0
    /\ lookahead' = NoToken
    /\ statestack' = <<0>>
    /\ symstack' = <<[type |-> "$end", value |-> NoneValue]>>
    /\ result' = NoneValue
    /\ counter' = 0
    /\ UNCHANGED <<issued, fed>>

\* Parser.parse(input): lexer.input(input), and yacc.parse starts on state 0
parse_call(maxcalls, texts) ==
    /\ pc \in {"idle", "returned", "raised"}
    /\ calls < maxcalls
    /\ pc' = "parsing"
    /\ calls' = calls + 1
    /\ lexdata' \in texts
    /\ lexpos' = 0
    /\ lookahead' = NoToken
    /\ statestack' = <<0>>
    /\ symstack' = <<[type |-> "$end", value |-> NoneValue]>>
    /\ result' = NoneValue
    /\ UNCHANGED <<counter, issued, fed>>

\* yacc fetches its lookahead: lexer.token() on text, "$end" at the end of the input
Fetch(text) ==
    LET r == token(text, lexpos)
    IN  /\ lexdata' = text
        /\ lexpos' = r.lexpos
        /\ UNCHANGED <<counter, issued, calls>>
        /\ IF r.kind = "error" THEN Raise(t_error(r.tok))
           ELSE /\ lookahead' = IF r.kind = "tok" THEN r.tok
                                ELSE [type |-> "$end", value |-> <<>>, lexpos |-> r.lexpos]
                /\ UNCHANGED <<pc, result, statestack, symstack>>

\* get_token() of yacc.parse; at the end of the text read so far the input either
\* ends or goes on with one more of the lexemes
get_token(lexemes, maxpieces) ==
    /\ pc = "parsing"
    /\ lookahead.type = "None"
    /\ IF lexpos + Run(lexdata, lexpos, t_ignore) < Len(lexdata)
       THEN Fetch(lexdata) /\ UNCHANGED fed
       ELSE \/ Fetch(lexdata) /\ UNCHANGED fed
            \/ /\ fed < maxpieces
               /\ fed' = fed + 1
               /\ \E piece \in lexemes : Fetch(lexdata \o piece \o <<" ">>)

State == statestack[Len(statestack)]

\* the parser's action on the lookahead
Todo ==
    IF pc = "parsing" /\ lookahead.type # "None"
    THEN LRAction(State, lookahead.type)
    ELSE NoAction

\* yacc shifts the lookahead
shift ==
    /\ Todo.a = "shift"
    /\ statestack' = Append(statestack, Todo.to)
    /\ symstack' = Append(symstack, lookahead)
    /\ lookahead' = NoToken
    /\ UNCHANGED <<pc, lexdata, lexpos, counter, issued, result, calls, fed>>

\* p[i] of a production with n right-hand symbols
P(i, n) ==
    symstack[Len(symstack) - n + i].value

\* yacc replaces the right-hand side of production p by its left-hand side
Reduced(p, value) ==
    LET n    == Productions[p].len
        base == SubSeq(statestack, 1, Len(statestack) - n)
    IN  /\ statestack' = Append(base, LRGoto(base[Len(base)], Productions[p].name))
        /\ symstack' = Append(SubSeq(symstack, 1, Len(symstack) - n),
                              [type |-> Productions[p].name, value |-> value])
        /\ UNCHANGED <<pc, lexdata, lexpos, lookahead, result, calls, fed>>

Reducing(p) ==
    Todo.a = "reduce" /\ Todo.prod = p

\* The print_debug() calls of the actions only log: they change no state.

\* statement : expression
p_statement_expr ==
    /\ Reducing("p_statement_expr")
    /\ Reduced("p_statement_expr", P(1, 1))
    /\ UNCHANGED <<counter, issued>>

\* what p_statemenlist leaves in p[0]
statemenlist_value(p1, p3) ==
    extend_instructions(p1, p3)

\* statement : statement SEMI statement
p_statemenlist ==
    /\ Reducing("p_statemenlist")
    /\ Reduced("p_statemenlist", statemenlist_value(P(1, 3), P(3, 3)))
    /\ UNCHANGED <<counter, issued>>

\* statement : statement SEMI
p_statement_list_2 ==
    /\ Reducing("p_statement_list_2")
    /\ Reduced("p_statement_list_2", P(1, 2))
    /\ UNCHANGED <<counter, issued>>

\* statement : statement_assign
p_statement_statementassign ==
    /\ Reducing("p_statement_statementassign")
    /\ Reduced("p_statement_statementassign", P(1, 1))
    /\ UNCHANGED <<counter, issued>>

\* expression : register
p_expression_register ==
    /\ Reducing("p_expression_register")
    /\ Reduced("p_expression_register", P(1, 1))
    /\ UNCHANGED <<counter, issued>>

\* p_register_reg without its set_value()
register_reg_unset(p1) ==
    HexagonTranslationBuilder

\* what p_register_reg leaves in p[0]
register_reg_value(p1) ==
    set_value(HexagonTranslationBuilder, ReilRegisterOperand(p1, hexagon_size))

\* register : REG
p_register_reg ==
    /\ Reducing("p_register_reg")
    /\ Reduced("p_register_reg", register_reg_value(P(1, 1)))
    /\ UNCHANGED <<counter, issued>>

\* what p_statementassign leaves in p[0]: p[3] with the STR added and
\* set_value(p[1]), p[1] being the register's builder
statementassign_value(p1, p3) ==
    set_value(add(p3, gen_str(p3.value, p1.value)), p1)

\* statement_assign : register <assignment operator> expression
p_statementassign ==
    /\ Reducing("p_statementassign")
    /\ IF get_value_raises(P(3, 3)) \/ get_value_raises(P(1, 3))
       THEN /\ Raise(UnexpectedException)
            /\ UNCHANGED <<lexdata, lexpos, calls, fed>>
       ELSE Reduced("p_statementassign", statementassign_value(P(1, 3), P(3, 3)))
    /\ UNCHANGED <<counter, issued>>

\* p_expression_binop with the operands of the ADD exchanged
binop_value_swapped(p1, p3, binop_dst) ==
    set_value(add(extend_instructions(p1, p3), gen_add(p3.value, p1.value, binop_dst)),
              binop_dst)

\* what p_expression_binop leaves in p[0], binop_dst being the temporary
binop_value(p1, p3, binop_dst) ==
    set_value(add(extend_instructions(p1, p3), gen_add(p1.value, p3.value, binop_dst)),
              binop_dst)

\* expression : expression <binary operator> expression
p_expression_binop ==
    /\ Reducing("p_expression_binop")
    /\ counter' = get_next_counter(counter)
    /\ issued' = Append(issued, [name |-> get_next_name(counter), call |-> calls])
    /\ IF get_value_raises(P(1, 3)) \/ get_value_raises(P(3, 3))
       THEN /\ Raise(UnexpectedException)
            /\ UNCHANGED <<lexdata, lexpos, calls, fed>>
       ELSE Reduced("p_expression_binop",
                    binop_value(P(1, 3), P(3, 3), temporal(counter, hexagon_size)))

\* yacc.parse returns the value of the start symbol
accept ==
    /\ Todo.a = "accept"
    /\ pc' = "returned"
    /\ result' = symstack[Len(symstack)].value
    /\ lookahead' = NoToken
    /\ statestack' = <<>>
    /\ symstack' = <<>>
    /\ UNCHANGED <<lexdata, lexpos, counter, issued, calls, fed>>

\* p_error(p): raise UnknownBehaviorException("Syntax error at ..."), p being
\* None at the end of the input
p_error ==
    /\ pc = "parsing"
    /\ lookahead.type # "None"
    /\ Todo.a = "error"
    /\ Raise([class |-> "UnknownBehaviorException", kind |-> "syntax",
              at |-> IF lookahead.type = "$end" THEN "EOF" ELSE "token",
              token |-> lookahead])
    /\ UNCHANGED <<lexdata, lexpos, counter, issued, calls, fed>>

parse == parse_call(MaxCalls, {<<>>})

get_lookahead == get_token(CorePieces, MaxPieces)

Next ==
    \/ parse
    \/ get_lookahead
    \/ shift
    \/ p_statement_expr
    \/ p_statemenlist
    \/ p_statement_list_2
    \/ p_statement_statementassign
    \/ p_expression_register
    \/ p_register_reg
    \/ p_statementassign
    \/ p_expression_binop
    \/ accept
    \/ p_error

Spec == Init /\ [][Next]_vars

\* A single call of parse() on an assignment or a chain, with every operator of
\* the grammar.  These texts end by the parser accepting: p_statemenlist and
\* p_error have nothing to do on them.
parse_once == parse_call(1, AssignTexts \cup ChainTexts)

get_lookahead_ops == get_token({}, 0)

NextOps ==
    \/ parse_once
    \/ get_lookahead_ops
    \/ shift
    \/ p_statement_expr
    \/ p_statement_list_2
    \/ p_statement_statementassign
    \/ p_expression_register
    \/ p_register_reg
    \/ p_statementassign
    \/ p_expression_binop
    \/ accept

SpecOps == Init /\ [][NextOps]_vars

-----------------------------------------------------------------------------
(* The lexer alone, on runs of hexadecimal digits with and without "0x".   *)

\* the sequences of 1..n characters of set cs
RECURSIVE Runs(_, _)
Runs(cs, n) ==
    IF n = 0 THEN {}
    ELSE {<<c>> : c \in cs} \cup {r \o <<c>> : r \in Runs(cs, n - 1), c \in cs}

LexTexts ==
    Runs(HexChars, MaxDigits) \cup {<<"0", "x">> \o d : d \in Runs(HexChars, MaxDigits)}

\* lexer.input(text)
InitLex ==
    /\ pc = "lexing"
    /\ lexdata \in LexTexts
    /\ lexpos = 0
    /\ lookahead = NoToken
    /\ statestack = <<>>
    /\ symstack = <<>>
    /\ counter = 0
    /\ issued = <<>>
    /\ result = NoneValue
    /\ calls = 0
    /\ fed = 0

\* lexer.token()
lexer_token ==
    /\ pc = "lexing"
    /\ LET r == token(lexdata, lexpos)
       IN  /\ lexpos' = r.lexpos
           /\ pc' = CASE r.kind = "tok" -> "lexing"
                      [] r.kind = "None" -> "returned"
                      [] r.kind = "error" -> "raised"
           /\ lookahead' = IF r.kind = "tok" THEN r.tok ELSE NoToken
           /\ result' = IF r.kind = "error" THEN t_error(r.tok) ELSE result
    /\ UNCHANGED <<lexdata, statestack, symstack, counter, issued, calls, fed>>

NextLex == lexer_token

SpecLex == InitLex /\ [][NextLex]_vars

-----------------------------------------------------------------------------
(* What the properties below speak of.                                     *)

\* the tokens of text s from offset p on, up to its end or its first illegal character
RECURSIVE LexAll(_, _)
LexAll(s, p) ==
    LET r == token(s, p)
    IN  IF r.kind = "tok" THEN <<r.tok>> \o LexAll(s, r.lexpos) ELSE <<>>

\* the tokens of the input of the current call
InputTokens == LexAll(lexdata, 0)

\* the types of a sequence of tokens
Types(toks) == [i \in 1..Len(toks) |-> toks[i].type]

\* the register operand a REG token stands for
Reg(name) == [class |-> "ReilRegisterOperand", name |-> name, size |-> 32]

\* an operand is a temporary: a register operand carrying a name of the generator
IsTemp(o) ==
    /\ o.class = "ReilRegisterOperand"
    /\ \E i \in 1..Len(issued) : issued[i].name = o.name

IsAdd(i, x, y, z) ==
    i = [mnemonic |-> "ADD", operands |-> <<x, y, z>>]

IsStore(i, x, z) ==
    i = [mnemonic |-> "STR", operands |-> <<x, ReilEmptyOperand, z>>]

\* the parser is never left without an action on its lookahead
NeverStuck ==
    (pc = "parsing" /\ lookahead.type # "None") => LRAction(State, lookahead.type).a # "error"

-----------------------------------------------------------------------------
\* C1: for all registers d, x, y and every binary operator, the call on
\* "d=x<op>y;" returns exactly ADD(x, y) -> t followed by STR(t) -> d, whatever
\* the operator; t is the one name the generator issued in the call, and no
\* register token can carry that name.
C1_AssignBinop ==
    /\ pc # "raised"
    /\ NeverStuck
    /\ LET toks == InputTokens
       IN  (/\ pc = "returned"
            /\ Len(toks) = 6
            /\ toks[1].type = "REG" /\ toks[2].type = "EQUALS" /\ toks[3].type = "REG"
            /\ toks[4].type \in BinaryOps /\ toks[5].type = "REG" /\ toks[6].type = "SEMI")
           => LET ins == result.instructions
                  t   == ins[1].operands[3]
              IN  /\ Len(ins) = 2
                  /\ IsAdd(ins[1], Reg(toks[3].value), Reg(toks[5].value), t)
                  /\ IsStore(ins[2], t, Reg(toks[1].value))
                  /\ Len(issued) = 1 /\ issued[1].name = t.name
                  /\ m_REG(t.name, 0) = 0
                  /\ t.name \notin {toks[1].value, toks[3].value, toks[5].value}

\* C1 witness: "Rd=Rs-Rt;" has been parsed and two instructions returned
C1_Witness ==
    /\ pc = "returned"
    /\ lexdata = Rd \o <<"=">> \o Rs \o <<"-">> \o Rt \o <<";">>
    /\ Len(result.instructions) = 2

\* the input is a chain of two binary operators over three registers
IsChain(toks) ==
    /\ Len(toks) = 5
    /\ toks[1].type = "REG" /\ toks[2].type \in BinaryOps /\ toks[3].type = "REG"
    /\ toks[4].type \in BinaryOps /\ toks[5].type = "REG"

\* C2 as claimed: "a<op1>b<op2>c" is reduced as (a op1 b) op2 c: the first ADD
\* combines a and b into t1, the second combines t1 and c into t2.
C2_LeftAssociated ==
    LET toks == InputTokens
    IN  (pc = "returned" /\ IsChain(toks))
        => LET ins == result.instructions
           IN  /\ Len(ins) = 2
               /\ IsAdd(ins[1], Reg(toks[1].value), Reg(toks[3].value), ins[1].operands[3])
               /\ IsAdd(ins[2], ins[1].operands[3], Reg(toks[5].value), ins[2].operands[3])

\* C2 as amended: "a<op1>b<op2>c" is reduced as a op1 (b op2 c): the first ADD
\* combines b and c into t1, the second combines a (left) and t1 (right) into
\* t2, t1 and t2 being two different temporaries.
C2_RightNested ==
    /\ pc # "raised"
    /\ NeverStuck
    /\ LET toks == InputTokens
       IN  (pc = "returned" /\ IsChain(toks))
           => LET ins == result.instructions
                  t1  == ins[1].operands[3]
                  t2  == ins[2].operands[3]
              IN  /\ Len(ins) = 2
                  /\ IsAdd(ins[1], Reg(toks[3].value), Reg(toks[5].value), t1)
                  /\ IsAdd(ins[2], Reg(toks[1].value), t1, t2)
                  /\ IsTemp(t1) /\ IsTemp(t2) /\ t1 # t2

\* C2 witness: "Rd-Rs<<Rt" has been parsed and two instructions returned
C2_Witness ==
    /\ pc = "returned"
    /\ lexdata = Rd \o <<"-">> \o Rs \o <<"<", "<">> \o Rt
    /\ Len(result.instructions) = 2

-----------------------------------------------------------------------------
\* C3 as claimed: an IMM token that stands where an expression is expected,
\* as the right-hand side of an assignment or as an operand of a binary
\* operator, does not make the call fail with a syntax error.
C3_ImmediateIsExpression ==
    LET toks == InputTokens
        n    == Len(toks)
    IN  ~(/\ pc = "raised"
          /\ result.class = "UnknownBehaviorException"
          /\ result.kind = "syntax"
          /\ result.token.type = "IMM"
          /\ n >= 2
          /\ toks[n].type = "IMM"
          /\ toks[n - 1].type \in AssignOps \cup BinaryOps)

-----------------------------------------------------------------------------
(* The instructions of one statement, read off its tokens.                 *)

Temp(n) ==
    ReilRegisterOperand(<<"t">> \o str(n), hexagon_size)

\* the token sequences between the SEMI tokens of toks, in order
RECURSIVE Statements(_)
Statements(toks) ==
    IF \A i \in 1..Len(toks) : toks[i].type # "SEMI"
    THEN IF toks = <<>> THEN <<>> ELSE <<toks>>
    ELSE LET n == CHOOSE k \in 1..Len(toks) :
                     toks[k].type = "SEMI" /\ \A j \in 1..(k - 1) : toks[j].type # "SEMI"
         IN  <<SubSeq(toks, 1, n - 1)>> \o Statements(SubSeq(toks, n + 1, Len(toks)))

\* the number of binary operators among toks
Binops(toks) ==
    Cardinality({i \in 1..Len(toks) : toks[i].type \in BinaryOps})

\* the number of assignment operators among toks
Assigns(toks) ==
    Cardinality({i \in 1..Len(toks) : toks[i].type \in AssignOps})

\* the instructions and the value of the expression r1 op r2 op ... rk, the
\* generator having issued c names: rk is combined first
RECURSIVE OfExpression(_, _)
OfExpression(toks, c) ==
    IF Len(toks) <= 1
    THEN [ins |-> <<>>, value |-> Reg(toks[1].value), c |-> c]
    ELSE LET rest == OfExpression(SubSeq(toks, 3, Len(toks)), c)
         IN  [ins   |-> Append(rest.ins,
                               [mnemonic |-> "ADD",
                                operands |-> <<Reg(toks[1].value), rest.value, Temp(rest.c + 1)>>]),
              value |-> Temp(rest.c + 1),
              c     |-> rest.c + 1]

\* the instructions of one statement, the generator having issued c names
OfStatement(toks, c) ==
    IF toks = <<>> THEN <<>>
    ELSE IF Len(toks) >= 2 /\ toks[2].type \in AssignOps
    THEN LET e == OfExpression(SubSeq(toks, 3, Len(toks)), c)
         IN  Append(e.ins, [mnemonic |-> "STR",
                            operands |-> <<e.value, ReilEmptyOperand, Reg(toks[1].value)>>])
    ELSE OfExpression(toks, c).ins

\* the instructions of the statements one after the other
RECURSIVE OfStatements(_, _)
OfStatements(stmts, c) ==
    IF stmts = <<>> THEN <<>>
    ELSE OfStatement(stmts[1], c) \o OfStatements(Tail(stmts), c + Binops(stmts[1]))

\* C4: when a call on two or more statements returns, the instructions it
\* returns are those of the first statement, then those of the second, and so
\* on, with or without a last semicolon.
C4_StatementOrder ==
    LET toks == InputTokens
    IN  (pc = "returned" /\ Len(Statements(toks)) >= 2)
        => result.instructions = OfStatements(Statements(toks), counter - Binops(toks))

\* C4 witness: "Rd = Rs ; Rs = Rd ;" returned the store to Rd, then the store to Rs
C4_Witness ==
    /\ pc = "returned"
    /\ Types(InputTokens) = <<"REG", "EQUALS", "REG", "SEMI", "REG", "EQUALS", "REG", "SEMI">>
    /\ Len(result.instructions) = 2
    /\ IsStore(result.instructions[1], Reg(Rs), Reg(Rd))
    /\ IsStore(result.instructions[2], Reg(Rd), Reg(Rs))

-----------------------------------------------------------------------------
\* C5: the names the generator has issued, over all calls so far, failed or
\* not, are pairwise different, and the counter counts them: no call resets it.
C5_NamesNeverReused ==
    /\ \A i \in 1..Len(issued) : \A j \in 1..Len(issued) :
          i # j => issued[i].name # issued[j].name
    /\ counter = Len(issued)

\* C5 witness: a second call that failed after a temporary was allocated in
\* it, the first call having allocated one too
C5_Witness ==
    /\ pc = "raised"
    /\ calls = 2
    /\ \E i \in 1..Len(issued) : issued[i].call = 1
    /\ \E j \in 1..Len(issued) : issued[j].call = 2

-----------------------------------------------------------------------------
-----------------------------------------------------------------------------
\* the runs of hexadecimal digits
IsDigitRun(d) ==
    d # <<>> /\ \A i \in 1..Len(d) : d[i] \in HexChars

\* d read as a number in base 16: the sum of its digits' values times the
\* powers of 16
RECURSIVE Power16(_)
Power16(n) ==
    IF n = 0 THEN 1 ELSE 16 * Power16(n - 1)

RECURSIVE HexNumber(_)
HexNumber(d) ==
    IF d = <<>> THEN 0
    ELSE DigitValue(d[1]) * Power16(Len(d) - 1) + HexNumber(Tail(d))

\* the digits of a text of LexTexts
DigitsOf(s) ==
    IF StartsWith(s, 0, <<"0", "x">>) THEN SubSeq(s, 3, Len(s)) ELSE s

\* the first token of the text is one IMM token spanning the text, of value v
OneImmediate(v) ==
    /\ lookahead.type = "IMM"
    /\ lookahead.value = v
    /\ lexpos = Len(lexdata)

\* a token has been returned and it is the first one of the text
FirstToken ==
    pc = "lexing" /\ lookahead.type # "None" /\ lookahead.lexpos = 0

\* C7 as claimed: every run d of hexadecimal digits, and "0x" followed by d,
\* lexes to one IMM token whose value is d read in base 16.
C7_EveryRunIsImmediate ==
    FirstToken => OneImmediate(HexNumber(DigitsOf(lexdata)))

\* the runs another rule takes: t_REG_EA takes "EA", t_REG takes "C" and the
\* one or two digits after it
TakenByRegisterRule(d) ==
    \/ StartsWith(d, 0, <<"E", "A">>)
    \/ Len(d) >= 2 /\ d[1] = "C"

\* C7 as amended: "0x" followed by a run d of hexadecimal digits lexes to one
\* IMM token whose value is d read in base 16, and so does d itself unless d
\* begins with "EA" or with "C" and one more digit: then the first token is
\* not an IMM token (REG_EA, REG), and it ends inside the run.
C7_ImmediateUnlessRegister ==
    FirstToken =>
        IF TakenByRegisterRule(lexdata)
        THEN /\ lookahead.type = (IF lexdata[1] = "C" THEN "REG" ELSE "REG_EA")
             /\ lexpos <= 3
        ELSE OneImmediate(HexNumber(DigitsOf(lexdata)))

\* C7 witness: "0x1F" has given one IMM token of value 31 that ends the text
C7_Witness ==
    /\ FirstToken
    /\ lexdata = <<"0", "x", "1", "F">>
    /\ OneImmediate(31)

-----------------------------------------------------------------------------
\* C8 as claimed: after the reduction of an assignment the builder's value is
\* the register operand of the left-hand side.
C8_ValueIsRegisterOperand ==
    \A i \in 1..Len(symstack) :
        symstack[i].type = "statement_assign"
        => symstack[i].value.value.class = "ReilRegisterOperand"

-----------------------------------------------------------------------------
Nonterminals == {"statement", "statement_assign", "expression", "register"}

\* C9: no call ends with the exception of get_value(), and every builder on
\* the parser's stack has its value set, so that no reduction can read an
\* unset value; a builder on which set_value() was never called has it unset.
C9_ValueAlwaysSet ==
    /\ result.class # "UnexpectedException"
    /\ \A i \in 1..Len(symstack) :
          symstack[i].type \in Nonterminals => ~get_value_raises(symstack[i].value)
    /\ get_value_raises(HexagonTranslationBuilder)

\* C9 witness: a call returned after both the binary-operator reduction and
\* the assignment reduction read their operands' values
C9_Witness ==
    /\ pc = "returned"
    /\ \E i \in 1..Len(result.instructions) : result.instructions[i].mnemonic = "ADD"
    /\ \E i \in 1..Len(result.instructions) : result.instructions[i].mnemonic = "STR"

-----------------------------------------------------------------------------
\* the operands an instruction reads
Sources(i) == {i.operands[1], i.operands[2]}

\* C10: in the instructions a call returns, every temporary is written by
\* exactly one ADD, every instruction that reads a temporary comes after the
\* ADD that writes it, and there is one instruction for each binary operator
\* and each assignment operator of the input.
C10_DefinedBeforeUse ==
    pc = "returned" =>
        LET ins == result.instructions
            writers(t) == {j \in 1..Len(ins) : ins[j].mnemonic = "ADD" /\ ins[j].operands[3] = t}
        IN  /\ Len(ins) = Binops(InputTokens) + Assigns(InputTokens)
            /\ \A i \in 1..Len(ins) :
                  /\ ins[i].mnemonic = "ADD" =>
                        IsTemp(ins[i].operands[3]) /\ Cardinality(writers(ins[i].operands[3])) = 1
                  /\ \A t \in Sources(ins[i]) :
                        IsTemp(t) => /\ Cardinality(writers(t)) = 1
                                     /\ \A j \in writers(t) : j < i

\* C10 witness: a call returned an ADD that reads the temporary of an earlier
\* ADD, and a STR after them
C10_Witness ==
    /\ pc = "returned"
    /\ Len(result.instructions) >= 3
    /\ IsTemp(result.instructions[2].operands[2])
    /\ result.instructions[3].mnemonic = "STR"

====
